---------------------------- MODULE Spec2Model ----------------------------
(***************************************************************************)
(* A model of the numerical pricing code of Pricing_Exotic_Options: the    *)
(* closed-form pricers (Black-Scholes, Reiner-Rubinstein), the Monte Carlo *)
(* pricers with their random generator, and the Crank-Nicolson solvers.    *)
(*                                                                         *)
(* Every notebook (and the report's listings) is a Python session of its   *)
(* own: the variable nb names the session, calls is the list of the calls  *)
(* completed in it, rng is the state of numpy's global generator and pde   *)
(* is the solver that is currently marching.                               *)
(*                                                                         *)
(* Floating point numbers are fixed-point integers: a dimensionless        *)
(* number x is the integer x*DS, a price p is the integer p*PS (cents).    *)
(* TLC's integers are 32 bits wide, which is what fixes the two scales.    *)
(***************************************************************************)
EXTENDS Integers, Sequences, FiniteSets, TLC

VARIABLES nb, env, rng, calls, pde, fb

vars == <<nb, env, rng, calls, pde, fb>>

-----------------------------------------------------------------------------
(* Fixed-point arithmetic                                                  *)

DS == 100 * 100
PS == 10 * 10

Max(a, b) == IF a >= b THEN a ELSE b
Min(a, b) == IF a <= b THEN a ELSE b
Abs(a) == IF a >= 0 THEN a ELSE -a

\* a/b rounded to the nearest integer, b # 0
RDiv(a, b) == IF b > 0 THEN (2 * a + b) \div (2 * b)
                       ELSE (-2 * a - b) \div (-2 * b)

\* x*y and x/y where y is dimensionless; the result has the scale of x.
Mul(x, y) == RDiv(x * y, DS)
Div(x, y) == RDiv(x * DS, y)

\* The values of IEEE arithmetic that are not numbers.
PosInf == 2000 * 1000 * 1000
NegInf == -PosInf
NaN == PosInf + 1
IsFinite(x) == x > NegInf /\ x < PosInf

RECURSIVE IsqrtIter(_, _, _)
IsqrtIter(n, lo, hi) ==
    IF lo >= hi THEN lo
    ELSE LET mid == (lo + hi + 1) \div 2
         IN  IF mid * mid <= n THEN IsqrtIter(n, mid, hi)
                               ELSE IsqrtIter(n, lo, mid - 1)

\* floor(sqrt(n)) of an integer 0 <= n < 2^31
Isqrt(n) == IsqrtIter(n, 0, 46340)

\* np.sqrt of a dimensionless number: nan below zero
Sqrt(x) == IF x < 0 THEN NaN ELSE Isqrt(x * DS)

RECURSIVE ExpSeries(_, _, _, _)
ExpSeries(x, n, term, acc) ==
    IF n > 14 \/ term = 0 THEN acc
    ELSE LET t == (term * x) \div (DS * n)
         IN  ExpSeries(x, n + 1, t, acc + t)

\* np.exp of a dimensionless number x <= 3: the Taylor series on [0, 3],
\* its reciprocal on [-3, 0), and exp(x/2)^2 below -3
RECURSIVE Exp(_)
Exp(x) == IF x >= 0 THEN ExpSeries(x, 1, DS, DS)
          ELSE IF x >= -3 * DS THEN RDiv(DS * DS, ExpSeries(-x, 1, DS, DS))
          ELSE LET h == Exp(RDiv(x, 2)) IN Mul(h, h)

RECURSIVE LnSeries(_, _, _, _)
LnSeries(y2, k, pow, acc) ==
    IF k > 12 \/ pow = 0 THEN acc
    ELSE LET p == Mul(pow, y2)
         IN  LnSeries(y2, k + 1, p, acc + RDiv(p, 2 * k + 1))

\* np.log of a dimensionless number: nan below zero, -inf at zero, and
\* 2*atanh((x-1)/(x+1)) above.
Ln(x) ==
    IF x < 0 THEN NaN
    ELSE IF x = 0 THEN NegInf
    ELSE LET y == Div(x - DS, x + DS)
         IN  2 * LnSeries(Mul(y, y), 1, y, y)

\* scipy.stats.norm.cdf at 0, 0.1, .., 4.0
PhiTable ==
    << 5000, 5398, 5793, 6179, 6554, 6915, 7257, 7580, 7881, 8159,
       8413, 8643, 8849, 9032, 9192, 9332, 9452, 9554, 9641, 9713,
       9772, 9821, 9861, 9893, 9918, 9938, 9953, 9965, 9974, 9981,
       9987, 9990, 9993, 9995, 9997, 9998, 9998, 9999, 9999, 10000, 10000 >>

PhiPos(x) ==
    IF x >= 4 * DS THEN DS
    ELSE LET i == x \div 1000
             f == x % 1000
         IN  PhiTable[i + 1] + RDiv((PhiTable[i + 2] - PhiTable[i + 1]) * f, 1000)

\* a distribution function without the reflection for negative arguments
PhiOneSided(x) == IF x >= 0 THEN PhiPos(x) ELSE PhiPos(-x)

\* norm.cdf of a dimensionless number or of an infinity
Phi(x) ==
    IF x = NaN THEN NaN
    ELSE IF x = PosInf THEN DS
    ELSE IF x = NegInf THEN 0
    ELSE IF x >= 0 THEN PhiPos(x) ELSE DS - PhiPos(-x)

\* x ** y of Python floats, for x > 0
Pow(x, y) == Exp(Mul(y, Ln(x)))

-----------------------------------------------------------------------------
(* What a Python call gives back                                           *)

Float(v) == [kind |-> "float", v |-> v, hw |-> 0, exc |-> "none"]
Pair(v, h) == [kind |-> "pair", v |-> v, hw |-> h, exc |-> "none"]
Raise(e) == [kind |-> "raise", v |-> 0, hw |-> 0, exc |-> e]

\* a float result that may be nan
FloatOrNaN(v) == IF v = NaN THEN [kind |-> "nan", v |-> 0, hw |-> 0, exc |-> "none"]
                 ELSE Float(v)

-----------------------------------------------------------------------------
(* IEEE arithmetic on numbers that may be infinite or nan                  *)

XNeg(a) == IF a = NaN THEN NaN ELSE -a

XAdd(a, b) ==
    IF a = NaN \/ b = NaN THEN NaN
    ELSE IF ~IsFinite(a) /\ ~IsFinite(b) THEN (IF a = b THEN a ELSE NaN)
    ELSE IF ~IsFinite(a) THEN a
    ELSE IF ~IsFinite(b) THEN b
    ELSE a + b

XSub(a, b) == XAdd(a, XNeg(b))

\* a/b of two numpy floats: a division by zero gives an infinity or nan
XDiv(a, b) ==
    IF a = NaN \/ b = NaN THEN NaN
    ELSE IF b = 0 THEN (IF a > 0 THEN PosInf ELSE IF a < 0 THEN NegInf ELSE NaN)
    ELSE IF ~IsFinite(a) THEN (IF (a > 0) = (b > 0) THEN PosInf ELSE NegInf)
    ELSE Div(a, b)

\* x*y for a finite x and a y that may be nan
XMul(x, y) == IF x = NaN \/ y = NaN THEN NaN ELSE Mul(x, y)

\* the product of two prices, in whole currency units squared
Sq(p, q) == RDiv(p * q, PS * PS)

-----------------------------------------------------------------------------
(* The closed-form pricers                                                 *)

\* final_report.tex, Appendix B: black_scholes_price
black_scholes_price(S, K, T, r, sigma, option_type) ==
    IF T <= 0 \/ sigma <= 0 \/ S <= 0 \/ K <= 0 THEN Float(0)
    ELSE LET sqT == Sqrt(T)
             d1  == Div(Ln(Div(S, K)) + Mul(r + Mul(DS \div 2, Mul(sigma, sigma)), T),
                        Mul(sigma, sqT))
             d2  == d1 - Mul(sigma, sqT)
         IN  IF option_type = "call"
             THEN Float(Mul(S, Phi(d1)) - Mul(Mul(K, Exp(-Mul(r, T))), Phi(d2)))
             ELSE IF option_type = "put"
             THEN Float(Mul(Mul(K, Exp(-Mul(r, T))), Phi(-d2)) - Mul(S, Phi(-d1)))
             ELSE Raise("ValueError")

\* notebook "PDE vs MC vs BSM": bsm_price. S/K is a division of Python
\* numbers (it raises at K = 0); everything after it is numpy arithmetic,
\* which gives inf and nan instead of raising.
bsm_price(S, K, r, sigma, T, option_type) ==
    IF T = 0
    THEN Float(Max(0, IF option_type = "call" THEN S - K ELSE K - S))
    ELSE IF K = 0 THEN Raise("ZeroDivisionError")
    ELSE LET sqT  == Sqrt(T)
             den  == XMul(sigma, sqT)
             num  == XAdd(Ln(Div(S, K)),
                          Mul(r + Mul(DS \div 2, Mul(sigma, sigma)), T))
             d1   == XDiv(num, den)
             d2   == XSub(d1, den)
             disc == Exp(-Mul(r, T))
         IN  IF option_type = "call"
             THEN FloatOrNaN(XSub(XMul(S, Phi(d1)), XMul(Mul(K, disc), Phi(d2))))
             ELSE FloatOrNaN(XSub(XMul(Mul(K, disc), Phi(XNeg(d2))),
                                  XMul(S, Phi(XNeg(d1)))))

\* notebook "PDE vs MC barrier comparison": down_and_out_call_rr, for
\* sigma > 0, T > 0, S0 > 0, K > 0 and B >= 0. x2 and y2 are computed and
\* not used; S0 / B raises at B = 0.
down_and_out_call_rr(S0, K, r, sigma, T, B) ==
    IF B >= S0 THEN Float(0)
    ELSE IF B = 0 THEN Raise("ZeroDivisionError")
    ELSE LET sT      == Mul(sigma, Sqrt(T))
             lambda_ == Div(r + Mul(DS \div 2, Mul(sigma, sigma)), Mul(sigma, sigma))
             x1      == Div(Ln(Div(S0, K)), sT) + Mul(lambda_, sT)
             y1      == Div(Ln(Div(Sq(B, B), Sq(S0, K))), sT) + Mul(lambda_, sT)
             disc    == Exp(-Mul(r, T))
             A       == Mul(S0, Phi(x1)) - Mul(Mul(K, disc), Phi(x1 - sT))
             B_term  == Mul(Mul(S0, Pow(Div(B, S0), 2 * lambda_)), Phi(y1))
             C_term  == Mul(Mul(Mul(K, disc), Pow(Div(B, S0), 2 * lambda_ - 2 * DS)),
                            Phi(y1 - sT))
         IN  Float(A - B_term + C_term)

\* the Reiner-Rubinstein value both rr_down_out_call compute once the
\* barrier is accepted: the d-terms are built from ln(S0/B)
RRFormula(S0, K, B, r, T, sigma) ==
    LET sT  == Mul(sigma, Sqrt(T))
        lam == Div(r + Mul(DS \div 2, Mul(sigma, sigma)), Mul(sigma, sigma))
        x1  == Div(Ln(Div(S0, B)), sT) + Mul(lam, sT)
        y1  == Div(Ln(Div(Sq(B, B), Sq(S0, K))), sT) + Mul(lam, sT)
        x2  == x1 - sT
        y2  == y1 - sT
        disc == Exp(-Mul(r, T))
        A   == Mul(S0, Phi(x1)) - Mul(Mul(K, disc), Phi(x2))
        B_  == Mul(Mul(S0, Pow(Div(B, S0), 2 * lam)), Phi(y1))
               - Mul(Mul(Mul(K, disc), Pow(Div(B, S0), 2 * lam - 2 * DS)), Phi(y2))
    IN  A - B_

\* notebook "Barrier option, Crank-Nicolson": rr_down_out_call
rr_down_out_call_cn(S0, K, B, r, T, sigma) ==
    IF ~(0 < B /\ B < S0) THEN Raise("ValueError")
    ELSE Float(RRFormula(S0, K, B, r, T, sigma))

\* notebook "Monte-Carlo pricing of barrier call options": rr_down_out_call
rr_down_out_call_mc(S0, K, B, r, T, sigma) ==
    IF B >= K \/ B <= 0 THEN Raise("ValueError")
    ELSE Float(RRFormula(S0, K, B, r, T, sigma))

-----------------------------------------------------------------------------
(* numpy's random generators                                               *)
(* A generator is a deterministic function of its state. The global one    *)
(* (np.random.seed, np.random.randn, np.random.normal) and the local ones  *)
(* (np.random.default_rng) are two linear congruential generators; a draw  *)
(* advances the state by one and gives one of three standard normals.      *)

RngMod == 8 * 8
RngStates == 0 .. (RngMod - 1)

\* seed=None
NoSeed == 0 - 1

\* np.random.seed(seed) and np.random.default_rng(seed): the state a seed gives
SeedState(seed) == seed % RngMod

RngNext(x) == (21 * x + 11) % RngMod
PcgNext(x) == (37 * x + 11) % RngMod

RECURSIVE RngSkip(_, _)
RngSkip(x, n) == IF n = 0 THEN x ELSE RngSkip(RngNext(x), n - 1)

RECURSIVE PcgSkip(_, _)
PcgSkip(x, n) == IF n = 0 THEN x ELSE PcgSkip(PcgNext(x), n - 1)

\* the normal a state gives
Normal(x) == ((x % 3) - 1) * DS

\* the k-th normal np.random.randn / np.random.normal draws from state x
Randn(x, k) == Normal(RngSkip(x, k))

\* the k-th normal rng.standard_normal draws from the local state x
StandardNormal(x, k) == Normal(PcgSkip(x, k))

-----------------------------------------------------------------------------
(* Statistics of a sample of discounted payoffs (prices, in cents)         *)

RECURSIVE SeqSum(_)
SeqSum(s) == IF s = <<>> THEN 0 ELSE Head(s) + SeqSum(Tail(s))

RECURSIVE SeqMin(_)
SeqMin(s) == IF Len(s) = 1 THEN Head(s) ELSE Min(Head(s), SeqMin(Tail(s)))

\* x.mean()
Mean(xs) == RDiv(SeqSum(xs), Len(xs))

\* x.std(ddof=1): nan for a sample of one
StdDdof1(xs) ==
    IF Len(xs) = 1 THEN NaN
    ELSE LET mu == Mean(xs)
             sq == [i \in 1 .. Len(xs) |-> (xs[i] - mu) * (xs[i] - mu)]
         IN  Isqrt(RDiv(SeqSum(sq), Len(xs) - 1))

\* 1.96 * x.std(ddof=1) / np.sqrt(N)
HalfWidth(xs) ==
    LET sd == StdDdof1(xs)
    IN  IF sd = NaN THEN NaN
        ELSE RDiv(196 * Div(sd, Sqrt(Len(xs) * DS)), 100)

\* np.exp(-r*T) * payoff, element by element
Discounted(r, T, payoff) == [i \in 1 .. Len(payoff) |-> Mul(payoff[i], Exp(-Mul(r, T)))]

-----------------------------------------------------------------------------
(* Path simulation                                                         *)

\* (r - 0.5*sigma**2)*dt + sigma*np.sqrt(dt)*z
\* with drift = (r - 0.5*sigma**2)*dt and vol = sigma*np.sqrt(dt)
Drift(r, sigma, dt) == Mul(r - Mul(DS \div 2, Mul(sigma, sigma)), dt)
Vol(sigma, dt) == Mul(sigma, Sqrt(dt))
LogIncrement(drift, vol, z) == drift + Mul(vol, z)

\* np.cumsum(inc)[j]
CumSum(inc, j) == SeqSum(SubSeq(inc, 1, j))

\* notebook "Monte-Carlo pricing of barrier call options": simulate_paths.
\* Z = np.random.randn(N, M) is filled row by row; the batch has M columns,
\* the prices after steps 1..M: the spot S0 is not one of them.
simulate_paths(S0, r, sigma, T, M, N, x) ==
    LET dt              == RDiv(T, M)
        drift           == Drift(r, sigma, dt)
        vol             == Vol(sigma, dt)
        Z(i, j)         == Randn(x, (i - 1) * M + j)
        log_inc(i, j)   == LogIncrement(drift, vol, Z(i, j))
        log_paths(i, j) == CumSum([k \in 1 .. j |-> log_inc(i, k)], j)
    IN  [i \in 1 .. N |-> [j \in 1 .. M |-> Mul(S0, Exp(log_paths(i, j)))]]

\* the payoff functions of that notebook; K, B_d and B_u are its globals
vanilla_call(ST, K) == Max(ST - K, 0)

Last(path) == path[Len(path)]

\* a test of the price at expiry alone
AtOrBelowAtExpiry(path, B) == Last(path) <= B

AnyAtOrBelow(path, B) == \E j \in 1 .. Len(path) : path[j] <= B
AnyAtOrAbove(path, B) == \E j \in 1 .. Len(path) : path[j] >= B

\* a payoff that forgets the barrier
down_and_out_unmonitored(paths, g) ==
    [i \in 1 .. Len(paths) |-> vanilla_call(Last(paths[i]), g.K)]

down_and_out(paths, g) ==
    [i \in 1 .. Len(paths) |->
        IF AnyAtOrBelow(paths[i], g.B_d) THEN 0 ELSE vanilla_call(Last(paths[i]), g.K)]

up_and_out(paths, g) ==
    [i \in 1 .. Len(paths) |->
        IF AnyAtOrAbove(paths[i], g.B_u) THEN 0 ELSE vanilla_call(Last(paths[i]), g.K)]

down_and_in(paths, g) ==
    [i \in 1 .. Len(paths) |->
        IF AnyAtOrBelow(paths[i], g.B_d) THEN vanilla_call(Last(paths[i]), g.K) ELSE 0]

\* a knock-in that looks at the price at expiry alone
up_and_in_at_expiry(paths, g) ==
    [i \in 1 .. Len(paths) |->
        IF Last(paths[i]) >= g.B_u THEN vanilla_call(Last(paths[i]), g.K) ELSE 0]

up_and_in(paths, g) ==
    [i \in 1 .. Len(paths) |->
        IF AnyAtOrAbove(paths[i], g.B_u) THEN vanilla_call(Last(paths[i]), g.K) ELSE 0]

\* the lambda of the pricing loop: vanilla_call(p[:, -1])
vanilla(paths, g) == [i \in 1 .. Len(paths) |-> vanilla_call(Last(paths[i]), g.K)]

PayoffFns == {"Vanilla", "Down-Out", "Up-Out", "Down-In", "Up-In"}

ApplyPayoff(fn, paths, g) ==
    CASE fn = "Vanilla"  -> vanilla(paths, g)
      [] fn = "Down-Out" -> down_and_out(paths, g)
      [] fn = "Up-Out"   -> up_and_out(paths, g)
      [] fn = "Down-In"  -> down_and_in(paths, g)
      [] fn = "Up-In"    -> up_and_in(paths, g)

-----------------------------------------------------------------------------
(* The Monte Carlo pricers: each gives what the call returns (res) and the *)
(* state it leaves the global generator in (rng)                           *)

\* the operations whose signature has a seed parameter: mc_price (and
\* simulate_paths under it) has none
AcceptsSeed(op) == op # "mc_price"

\* notebook "Monte-Carlo pricing of barrier call options": mc_price.
\* S0, r, sigma, T, M are the notebook's globals g; x is the global state.
mc_price(payoff_fn, N, g, x) ==
    LET paths  == simulate_paths(g.S0, g.r, g.sigma, g.T, g.M, N, x)
        payoff == Discounted(g.r, g.T, ApplyPayoff(payoff_fn, paths, g))
    IN  [res |-> Pair(Mean(payoff), HalfWidth(payoff)),
         rng |-> RngSkip(x, N * g.M)]

\* final_report.tex, Appendix B: mc_european_price
mc_european_price(S0, K, r, sigma, T, N_paths, N_steps, is_call, seed, x) ==
    LET x0        == IF seed # NoSeed THEN SeedState(seed) ELSE x
        dt        == RDiv(T, N_steps)
        drift     == Drift(r, sigma, dt)
        vol       == Vol(sigma, dt)
        Z(i, j)   == Randn(x0, (i - 1) * N_steps + j)
        inc(i, j) == LogIncrement(drift, vol, Z(i, j))
        ST(i)     == Mul(S0, Exp(CumSum([k \in 1 .. N_steps |-> inc(i, k)], N_steps)))
        payoff    == [i \in 1 .. N_paths |->
                        IF is_call THEN Max(ST(i) - K, 0) ELSE Max(K - ST(i), 0)]
        discounted == Discounted(r, T, payoff)
    IN  [res |-> Pair(Mean(discounted), HalfWidth(discounted)),
         rng |-> RngSkip(x0, N_paths * N_steps)]

\* notebook "Exotic Greeks": mc_barrier_down_out_call. The paths are drawn
\* one after the other, M normals each; S_path holds the prices after
\* steps 1..M.
S_path_of(S0, r, sigma, T, M, x0, i) ==
    LET dt     == RDiv(T, M)
        drift  == Drift(r, sigma, dt)
        vol    == Vol(sigma, dt)
        inc(j) == LogIncrement(drift, vol, Randn(x0, (i - 1) * M + j))
    IN  [j \in 1 .. M |-> Mul(S0, Exp(CumSum([k \in 1 .. j |-> inc(k)], j)))]

mc_barrier_down_out_call(S0, K, r, sigma, T, B, N_paths, M, seed, x) ==
    LET x0        == IF seed # NoSeed THEN SeedState(seed) ELSE x
        S_path    == [i \in 1 .. N_paths |-> S_path_of(S0, r, sigma, T, M, x0, i)]
        payoffs   == [i \in 1 .. N_paths |->
                        IF SeqMin(S_path[i]) <= B THEN 0
                        ELSE Max(Last(S_path[i]) - K, 0)]
        discounted == Discounted(r, T, payoffs)
    IN  [res |-> Pair(Mean(discounted), HalfWidth(discounted)),
         rng |-> RngSkip(x0, N_paths * M)]

\* notebook "Exotic Greeks": the wrapper price_barrier fixes B = 90
price_barrier(S0, K, r, sigma, T, N_paths, M, seed, x) ==
    mc_barrier_down_out_call(S0, K, r, sigma, T, 90 * PS, N_paths, M, seed, x)

\* central differences of three prices; delta and gamma are in units of 1/DS
GreekDelta(up, down, bump) == RDiv((up - down) * DS, 2 * bump)
GreekGamma(up, base, down, bump) ==
    RDiv(RDiv((up - 2 * base + down) * PS, bump) * DS, bump)

\* three evaluations of which only the first is given the seed
compute_greeks_seed_once(S0, bump, K, r, sigma, T, N_paths, M, seed, x) ==
    LET Out(base, up, down) ==
            [res |-> Pair(GreekDelta(up.res.v, down.res.v, bump),
                          GreekGamma(up.res.v, base.res.v, down.res.v, bump)),
             rng |-> down.rng]
        Down(base, up) ==
            CHOOSE o \in {Out(base, up, down) : down \in
                {price_barrier(S0 - bump, K, r, sigma, T, N_paths, M, NoSeed, up.rng)}} : TRUE
        Up(base) ==
            CHOOSE o \in {Down(base, up) : up \in
                {price_barrier(S0 + bump, K, r, sigma, T, N_paths, M, NoSeed, base.rng)}} : TRUE
    IN  CHOOSE o \in {Up(base) : base \in
            {price_barrier(S0, K, r, sigma, T, N_paths, M, seed, x)}} : TRUE

\* notebook "Exotic Greeks": compute_greeks(price_barrier, S0, bump, **kwargs);
\* the three calls follow one another on the global generator, the half-widths
\* are dropped, the pair returned is (delta, gamma)
compute_greeks(S0, bump, K, r, sigma, T, N_paths, M, seed, x) ==
    LET Out(base, up, down) ==
            [res |-> Pair(GreekDelta(up.res.v, down.res.v, bump),
                          GreekGamma(up.res.v, base.res.v, down.res.v, bump)),
             rng |-> down.rng]
        Down(base, up) ==
            CHOOSE o \in {Out(base, up, down) : down \in
                {price_barrier(S0 - bump, K, r, sigma, T, N_paths, M, seed, up.rng)}} : TRUE
        Up(base) ==
            CHOOSE o \in {Down(base, up) : up \in
                {price_barrier(S0 + bump, K, r, sigma, T, N_paths, M, seed, base.rng)}} : TRUE
    IN  CHOOSE o \in {Up(base) : base \in
            {price_barrier(S0, K, r, sigma, T, N_paths, M, seed, x)}} : TRUE

\* notebook "PDE vs MC vs BSM": mc_price_european. It always reseeds the
\* global generator; each time step draws one normal per path; the prices
\* are multiplied up step by step; it returns the price alone. M is the
\* number of paths, N the number of steps.
RECURSIVE EulerStep(_, _, _, _, _, _, _)
EulerStep(S0, drift, vol, M, x0, i, t) ==
    IF t = 0 THEN S0
    ELSE Mul(EulerStep(S0, drift, vol, M, x0, i, t - 1),
             Exp(LogIncrement(drift, vol, Randn(x0, (t - 1) * M + i))))

\* the array S: row i holds the prices of path i at the steps 0..N
mc_price_european_S(S0, r, sigma, T, M, N, x0) ==
    LET dt == RDiv(T, N)
        drift == Drift(r, sigma, dt)
        vol == Vol(sigma, dt)
    IN  [i \in 1 .. M |->
           [t \in 1 .. N + 1 |-> EulerStep(S0, drift, vol, M, x0, i, t - 1)]]

mc_price_european(S0, K, r, sigma, T, M, N, option_type, seed, x) ==
    LET x0 == SeedState(seed)
        S  == mc_price_european_S(S0, r, sigma, T, M, N, x0)
        ST == [i \in 1 .. M |-> Last(S[i])]
        payoff == [i \in 1 .. M |->
                     IF option_type = "call" THEN Max(ST[i] - K, 0)
                                             ELSE Max(K - ST[i], 0)]
    IN  [res |-> Float(Mul(Mean(payoff), Exp(-Mul(r, T)))),
         rng |-> RngSkip(x0, M * N)]

\* notebook "PDE vs MC barrier comparison": mc_do_call. The generator is a
\* local one made from the seed; S holds the prices at steps 0..M, the spot
\* first; it returns the price alone and leaves the global generator alone.
\* the array S of path i: the prices at the times t[0], .., t[M]
mc_do_call_S(S0, r, sigma, T, M, l0, i) ==
    LET dt   == RDiv(T, M)
        Z(j) == StandardNormal(l0, (i - 1) * M + j)
        W(j) == IF j = 0 THEN 0
                ELSE Mul(CumSum([k \in 1 .. j |-> Z(k)], j), Sqrt(dt))
        t(j) == RDiv(j * T, M)
    IN  [j \in 1 .. M + 1 |->
           Mul(S0, Exp(Mul(r - Mul(DS \div 2, Mul(sigma, sigma)), t(j - 1))
                       + Mul(sigma, W(j - 1))))]

mc_do_call(S0, K, r, sigma, T, B, M, N, seed, x) ==
    LET l0      == SeedState(seed)
        S       == [i \in 1 .. N |-> mc_do_call_S(S0, r, sigma, T, M, l0, i)]
        pay     == [i \in 1 .. N |->
                      IF SeqMin(S[i]) <= B THEN 0
                      ELSE Max(Last(S[i]) - K, 0)]
    IN  [res |-> Float(Mul(Mean(pay), Exp(-Mul(r, T)))),
         rng |-> x]

-----------------------------------------------------------------------------
(* Linear algebra and interpolation                                        *)

\* The solution x of the tridiagonal system whose row k is
\*   sub[k]*x[k-1] + diag[k]*x[k] + sup[k]*x[k+1] = rhs[k]
\* (what scipy's spsolve and solve_banded return for it).
RECURSIVE ThomasForward(_, _, _, _, _, _, _)
ThomasForward(sub, diag, sup, rhs, k, cp, dp) ==
    IF k > Len(diag) THEN [cp |-> cp, dp |-> dp]
    ELSE LET m == IF k = 1 THEN diag[1] ELSE diag[k] - Mul(sub[k], cp[k - 1])
             c == Div(sup[k], m)
             d == Div(IF k = 1 THEN rhs[1] ELSE rhs[k] - Mul(dp[k - 1], sub[k]), m)
         IN  ThomasForward(sub, diag, sup, rhs, k + 1, Append(cp, c), Append(dp, d))

RECURSIVE ThomasBackward(_, _, _, _)
ThomasBackward(cp, dp, k, acc) ==
    IF k = 0 THEN acc
    ELSE LET xk == IF acc = <<>> THEN dp[k] ELSE dp[k] - Mul(Head(acc), cp[k])
         IN  ThomasBackward(cp, dp, k - 1, <<xk>> \o acc)

TriSolve(sub, diag, sup, rhs) ==
    LET f == ThomasForward(sub, diag, sup, rhs, 1, <<>>, <<>>)
    IN  ThomasBackward(f.cp, f.dp, Len(diag), <<>>)

\* scipy.linalg.solve_banded((1, 1), ab, rhs): column j of the matrix is
\* stored in column j of ab, so ab.up[j] is the entry (j-1, j), ab.main[j]
\* the entry (j, j) and ab.low[j] the entry (j+1, j); ab.up[1] and the last
\* ab.low are not read.
BandedRows(ab) ==
    LET n == Len(ab.main)
    IN  [sub  |-> [k \in 1 .. n |-> IF k = 1 THEN 0 ELSE ab.low[k - 1]],
         diag |-> ab.main,
         sup  |-> [k \in 1 .. n |-> IF k = n THEN 0 ELSE ab.up[k + 1]]]

solve_banded(ab, rhs) ==
    LET rows == BandedRows(ab)
    IN  TriSolve(rows.sub, rows.diag, rows.sup, rhs)

\* np.linspace(0, Smax, N_S + 1)[j]
GridNode(Smax, N_S, j) == RDiv(j * Smax, N_S)

\* np.interp(S0, S, V) on the grid S of N_S + 1 nodes
Interp(S0, Smax, N_S, V) ==
    IF S0 <= 0 THEN V[0]
    ELSE IF S0 >= Smax THEN V[N_S]
    ELSE LET j  == CHOOSE k \in 0 .. (N_S - 1) :
                     GridNode(Smax, N_S, k) <= S0 /\ S0 < GridNode(Smax, N_S, k + 1)
             lo == GridNode(Smax, N_S, j)
             hi == GridNode(Smax, N_S, j + 1)
         IN  V[j] + RDiv((V[j + 1] - V[j]) * (S0 - lo), hi - lo)

-----------------------------------------------------------------------------
(* The Crank-Nicolson solvers for the down-and-out call                    *)
(* A solve is a state machine: V is the layer after n time steps.          *)

\* the coefficients of node j: 0.25*dt*(sigma^2 j^2 - r j),
\* -0.5*dt*(sigma^2 j^2 + r), 0.25*dt*(sigma^2 j^2 + r j)
Alpha(sigma, r, dt, j) == Mul(Mul(DS \div 4, dt), Mul(sigma, sigma) * j * j - r * j)
Beta(sigma, r, dt, j)  == -Mul(Mul(DS \div 2, dt), Mul(sigma, sigma) * j * j + r)
Gamma(sigma, r, dt, j) == Mul(Mul(DS \div 4, dt), Mul(sigma, sigma) * j * j + r * j)

\* notebook "PDE vs MC barrier comparison": pde_do_call_cn.
\* jB = int(B/dS)
BarrierNode(B, Smax, N_S) == (B * N_S) \div Smax

\* V = np.maximum(S_grid - K, 0.0); V[:jB+1] = 0.0
pde_do_call_cn_init(a) ==
    LET jB == BarrierNode(a.B, a.Smax, a.N_S)
    IN  [j \in 0 .. a.N_S |->
           IF j <= jB THEN 0 ELSE Max(GridNode(a.Smax, a.N_S, j) - a.K, 0)]

\* M1 = diags([-alpha[1:], 1-beta, -gamma[:-1]], offsets=[-1,0,1]), by rows
pde_do_call_cn_M1(a) ==
    LET dt == RDiv(a.T, a.N_t)
        m  == a.N_S - 1
    IN  [sub  |-> [k \in 1 .. m |-> IF k > 1 THEN -Alpha(a.sigma, a.r, dt, k) ELSE 0],
         diag |-> [k \in 1 .. m |-> DS - Beta(a.sigma, a.r, dt, k)],
         sup  |-> [k \in 1 .. m |-> IF k < m THEN -Gamma(a.sigma, a.r, dt, k) ELSE 0]]

\* the nodes the time loop sets to zero: V[0] = 0.0; V[jB] = 0.0
pde_do_call_cn_absorbed(a) == {0, BarrierNode(a.B, a.Smax, a.N_S)}

\* V[0] = 0.0; V[jB] = 0.0; V[-1] = Smax - K*np.exp(-r*(T - n*dt)), in this
\* order
pde_do_call_cn_bc(a, n, V) ==
    LET dt   == RDiv(a.T, a.N_t)
        far  == a.Smax - Mul(a.K, Exp(-Mul(a.r, a.T - n * dt)))
    IN  [j \in 0 .. a.N_S |->
           IF j = a.N_S THEN far
           ELSE IF j \in pde_do_call_cn_absorbed(a) THEN 0 ELSE V[j]]

\* rhs = M2.dot(V[1:-1]): the far boundary value is not part of the product
pde_do_call_cn_rhs(a, V1) ==
    LET dt == RDiv(a.T, a.N_t)
        m  == a.N_S - 1
    IN  [k \in 1 .. m |->
           (IF k > 1 THEN Mul(V1[k - 1], Alpha(a.sigma, a.r, dt, k)) ELSE 0)
           + Mul(V1[k], DS + Beta(a.sigma, a.r, dt, k))
           + (IF k < m THEN Mul(V1[k + 1], Gamma(a.sigma, a.r, dt, k)) ELSE 0)]

\* one pass of the loop body, for the loop index n
pde_do_call_cn_step(a, n, V) ==
    LET m    == a.N_S - 1
        V1   == pde_do_call_cn_bc(a, n, V)
        rhs  == pde_do_call_cn_rhs(a, V1)
        \* spsolve(M1, rhs)
        M1   == pde_do_call_cn_M1(a)
        new  == TriSolve(M1.sub, M1.diag, M1.sup, rhs)
    IN  [j \in 0 .. a.N_S |-> IF 1 <= j /\ j <= m THEN new[j] ELSE V1[j]]

\* notebook "Barrier option, Crank-Nicolson": crank_nicolson_barrier.
\* V = np.maximum(S - K, 0); V[S < B] = 0
crank_nicolson_barrier_init(a) ==
    [j \in 0 .. a.N_S |->
        IF GridNode(a.Smax, a.N_S, j) < a.B THEN 0
        ELSE Max(GridNode(a.Smax, a.N_S, j) - a.K, 0)]

\* the banded matrices A and Bm; index k is the interior node k
\* (a[k-1], b[k-1], c[k-1] of the code)
crank_nicolson_barrier_A(a) ==
    LET dt == RDiv(a.T, a.N_t)
        m  == a.N_S - 1
    IN  [up   |-> [k \in 1 .. m |-> IF k = 1 THEN 0 ELSE -Gamma(a.sigma, a.r, dt, k - 1)],
         main |-> [k \in 1 .. m |-> DS - Beta(a.sigma, a.r, dt, k)],
         low  |-> [k \in 1 .. m |-> IF k = m THEN 0 ELSE -Alpha(a.sigma, a.r, dt, k + 1)]]

crank_nicolson_barrier_Bm(a) ==
    LET dt == RDiv(a.T, a.N_t)
        m  == a.N_S - 1
    IN  [up   |-> [k \in 1 .. m |-> IF k = 1 THEN 0 ELSE Gamma(a.sigma, a.r, dt, k - 1)],
         main |-> [k \in 1 .. m |-> DS + Beta(a.sigma, a.r, dt, k)],
         low  |-> [k \in 1 .. m |-> IF k = m THEN 0 ELSE Alpha(a.sigma, a.r, dt, k + 1)]]

\* rhs = Bm[0] * V[2:] + Bm[1] * V[1:-1] + Bm[2] * V[:-2]
crank_nicolson_barrier_rhs0(a, V) ==
    LET m  == a.N_S - 1
        Bm == crank_nicolson_barrier_Bm(a)
    IN  [k \in 1 .. m |->
           Mul(V[k + 1], Bm.up[k]) + Mul(V[k], Bm.main[k]) + Mul(V[k - 1], Bm.low[k])]

\* bc_val = Smax - K * np.exp(-r * (t - dt)) with t = T - n * dt
crank_nicolson_barrier_bc_val(a, n) ==
    LET dt == RDiv(a.T, a.N_t)
        t  == a.T - n * dt
    IN  a.Smax - Mul(a.K, Exp(-Mul(a.r, t - dt)))

\* rhs[-1] -= c[-1] * bc_val
crank_nicolson_barrier_rhs(a, n, V) ==
    LET dt   == RDiv(a.T, a.N_t)
        m    == a.N_S - 1
        rhs0 == crank_nicolson_barrier_rhs0(a, V)
    IN  [k \in 1 .. m |->
           IF k = m
           THEN rhs0[k] - Mul(crank_nicolson_barrier_bc_val(a, n), Gamma(a.sigma, a.r, dt, m))
           ELSE rhs0[k]]

\* the nodes the time loop sets to zero: V[S < B] = 0; V[0] = 0
crank_nicolson_barrier_absorbed(a) ==
    {j \in 0 .. a.N_S : GridNode(a.Smax, a.N_S, j) < a.B} \cup {0}

\* one pass of the loop body, for the loop index n
crank_nicolson_barrier_step(a, n, V) ==
    LET bc_val == crank_nicolson_barrier_bc_val(a, n)
        new    == solve_banded(crank_nicolson_barrier_A(a),
                               crank_nicolson_barrier_rhs(a, n, V))
    IN  \* V[S < B] = 0; V[0] = 0; V[-1] = bc_val
        [j \in 0 .. a.N_S |->
           IF j = a.N_S THEN bc_val
           ELSE IF j \in crank_nicolson_barrier_absorbed(a) THEN 0
           ELSE new[j]]

\* final_report.tex, Appendix B: crank_nicolson, the vanilla solver with
\* banded matrices (M is a.N_S, N is a.N_t).
\* V = np.maximum(0, S - K) for a call, np.maximum(0, K - S) otherwise
crank_nicolson_init(a) ==
    [j \in 0 .. a.N_S |->
        IF a.option_type = "call" THEN Max(0, GridNode(a.Smax, a.N_S, j) - a.K)
        ELSE Max(0, a.K - GridNode(a.Smax, a.N_S, j))]

\* A[0, i-1] = -alpha[i]; A[1, i-1] = 1 - beta[i]; A[2, i-1] = -gamma[i]:
\* the three coefficients of node i are stored in one column
crank_nicolson_banded_A(a) ==
    LET dt == RDiv(a.T, a.N_t)
        m  == a.N_S - 1
    IN  [up   |-> [k \in 1 .. m |-> -Alpha(a.sigma, a.r, dt, k)],
         main |-> [k \in 1 .. m |-> DS - Beta(a.sigma, a.r, dt, k)],
         low  |-> [k \in 1 .. m |-> -Gamma(a.sigma, a.r, dt, k)]]

\* B[0, i-1] = alpha[i]; B[1, i-1] = 1 + beta[i]; B[2, i-1] = gamma[i]
crank_nicolson_banded_B(a) ==
    LET dt == RDiv(a.T, a.N_t)
        m  == a.N_S - 1
    IN  [up   |-> [k \in 1 .. m |-> Alpha(a.sigma, a.r, dt, k)],
         main |-> [k \in 1 .. m |-> DS + Beta(a.sigma, a.r, dt, k)],
         low  |-> [k \in 1 .. m |-> Gamma(a.sigma, a.r, dt, k)]]

\* rhs = B[0]*V[0:M-1] + B[1]*V[1:M] + B[2]*V[2:M+1]
crank_nicolson_banded_rhs(a, V) ==
    LET m == a.N_S - 1
        B == crank_nicolson_banded_B(a)
    IN  [k \in 1 .. m |->
           Mul(V[k - 1], B.up[k]) + Mul(V[k], B.main[k]) + Mul(V[k + 1], B.low[k])]

\* one pass of the loop body, for the loop index n
crank_nicolson_banded_step(a, n, V) ==
    LET dt   == RDiv(a.T, a.N_t)
        new  == solve_banded(crank_nicolson_banded_A(a), crank_nicolson_banded_rhs(a, V))
        disc == Mul(a.K, Exp(-Mul(a.r, a.T - n * dt)))
    IN  \* V[0] = 0; V[M] = Smax - K*exp(-r*(T - n*dt)) or K*exp(-r*(T - n*dt))
        [j \in 0 .. a.N_S |->
           IF j = 0 THEN 0
           ELSE IF j = a.N_S
                THEN (IF a.option_type = "call" THEN a.Smax - disc ELSE disc)
           ELSE new[j]]

\* notebook "PDE vs MC vs BSM": crank_nicolson, the vanilla solver with
\* dense matrices; row i-1 of A and of B holds the coefficients of node i.
crank_nicolson_dense_A(a) ==
    LET dt == RDiv(a.T, a.N_t)
        m  == a.N_S - 1
    IN  [sub  |-> [k \in 1 .. m |-> IF k > 1 THEN -Alpha(a.sigma, a.r, dt, k) ELSE 0],
         diag |-> [k \in 1 .. m |-> DS - Beta(a.sigma, a.r, dt, k)],
         sup  |-> [k \in 1 .. m |-> IF k < m THEN -Gamma(a.sigma, a.r, dt, k) ELSE 0]]

crank_nicolson_dense_B(a) ==
    LET dt == RDiv(a.T, a.N_t)
        m  == a.N_S - 1
    IN  [sub  |-> [k \in 1 .. m |-> IF k > 1 THEN Alpha(a.sigma, a.r, dt, k) ELSE 0],
         diag |-> [k \in 1 .. m |-> DS + Beta(a.sigma, a.r, dt, k)],
         sup  |-> [k \in 1 .. m |-> IF k < m THEN Gamma(a.sigma, a.r, dt, k) ELSE 0]]

\* B @ V[1:M]
crank_nicolson_dense_rhs(a, V) ==
    LET m == a.N_S - 1
        B == crank_nicolson_dense_B(a)
    IN  [k \in 1 .. m |->
           (IF k > 1 THEN Mul(V[k - 1], B.sub[k]) ELSE 0)
           + Mul(V[k], B.diag[k])
           + (IF k < m THEN Mul(V[k + 1], B.sup[k]) ELSE 0)]

\* V[1:M] = solve(A, B @ V[1:M]); V[0] and V[M] are never written
crank_nicolson_dense_step(a, n, V) ==
    LET m    == a.N_S - 1
        A    == crank_nicolson_dense_A(a)
        new  == TriSolve(A.sub, A.diag, A.sup, crank_nicolson_dense_rhs(a, V))
    IN  [j \in 0 .. a.N_S |-> IF 1 <= j /\ j <= m THEN new[j] ELSE V[j]]

BarrierPdeOps == {"pde_do_call_cn", "crank_nicolson_barrier"}

VanillaPdeOps == {"crank_nicolson_banded", "crank_nicolson_dense"}

PdeOps == BarrierPdeOps \cup VanillaPdeOps

PdeInit(op, a) ==
    CASE op = "pde_do_call_cn"         -> pde_do_call_cn_init(a)
      [] op = "crank_nicolson_barrier" -> crank_nicolson_barrier_init(a)
      [] op \in VanillaPdeOps          -> crank_nicolson_init(a)

PdeStep(op, a, n, V) ==
    CASE op = "pde_do_call_cn"         -> pde_do_call_cn_step(a, n, V)
      [] op = "crank_nicolson_barrier" -> crank_nicolson_barrier_step(a, n, V)
      [] op = "crank_nicolson_banded"  -> crank_nicolson_banded_step(a, n, V)
      [] op = "crank_nicolson_dense"   -> crank_nicolson_dense_step(a, n, V)

-----------------------------------------------------------------------------
(* The sessions                                                            *)
(* A session is one of the repository's listings or notebooks, run with    *)
(* one set of market parameters (env). Its cells are called in any order;  *)
(* calls is the log of the calls made so far, with what each returned and  *)
(* the state of numpy's global generator before and after it.              *)

MaxCalls  == 3
NumPaths  == 2
NumSteps  == 2
GridNodes == 4
TimeSteps == 2

Notebooks == {"final_report", "exotic_greeks", "pde_vs_mc_vs_bsm",
              "mc_barrier", "pde_vs_mc_barrier", "cn_barrier"}

\* the states the operating system's entropy leaves the global generator in
EntropyStates == {0, 5}

\* the seeds a caller passes
Seeds == {42, 7}

Market(S0_, K_, T_, sigma_, B_d_, B_u_) ==
    [S0 |-> S0_, K |-> K_, r |-> 500, sigma |-> sigma_, T |-> T_, M |-> NumSteps,
     B_d |-> B_d_, B_u |-> B_u_, Smax |-> 40000, N_S |-> GridNodes, N_t |-> TimeSteps]

\* the simulations are called with a market they can simulate
Regular(g) == g.S0 > 0 /\ g.K > 0 /\ g.T > 0 /\ g.sigma > 0

\* S0, K, T, sigma of the sessions that price vanilla options: one regular
\* market and the degenerate ones around it
VanillaMarkets ==
    {g \in {Market(s, k, t, v, 9000, 11000) :
               s \in {0, 9000, 11000}, k \in {0, 10000}, t \in {-10000, 0, 10000},
               v \in {0, 2000}} :
        Regular(g) => g.S0 = 11000}

\* the barriers below, at and above the spot
BarrierMarkets ==
    {Market(10000, k, 10000, 2000, b[1], b[2]) :
        k \in {8000, 10000},
        b \in {<<9000, 11000>>, <<10000, 10000>>, <<11000, 9000>>}}

\* spot on a grid node and between two; barrier on a node, between two and
\* on the last node of the grid (B = Smax)
GridMarkets ==
    {Market(s, 10000, 10000, 2000, b, 11000) :
        s \in {10000, 15000}, b \in {5000, 10000, 15000, 20000, 40000}}

Markets(n) ==
    CASE n \in {"final_report", "pde_vs_mc_vs_bsm"} -> VanillaMarkets
      [] n \in {"exotic_greeks", "mc_barrier"}      -> BarrierMarkets
      [] n \in {"pde_vs_mc_barrier", "cn_barrier"}  -> GridMarkets

\* notebook "Implied volatility": find_bracket and the objective functions
\* price(sigma) - target it is given; volatilities and max_high are in units
\* of 1/DS, factor is a whole number. The model price rises with sigma, one unit per unit.
Sign(x) == IF x > 0 THEN 1 ELSE IF x < 0 THEN 0 - 1 ELSE 0

Objective(target, sigma) == sigma - target

\* the targets: one below every price, one bracketed by [1e-4, 1], two that
\* need high to grow
Targets == {0 - DS, DS \div 2, 3 * DS, 20 * DS}
Lows == {1}
Highs == {DS \div 2, DS, 4 * DS}
Factors == {2, 3}
MaxHighs == {2 * DS, 8 * DS}

\* the frame of find_bracket: its arguments, its locals, the argument values
\* it was called with and the points func has been evaluated at
FindBracketIdle ==
    [st |-> "idle", func |-> 0, low |-> 0, high |-> 0, factor |-> 0, max_high |-> 0,
     f_low |-> 0, f_high |-> 0, low0 |-> 0, high0 |-> 0, evals |-> {}]

\* f_low, f_high = func(low), func(high)
find_bracket_enter(func, low, high, factor, max_high) ==
    [st |-> "loop", func |-> func, low |-> low, high |-> high, factor |-> factor,
     max_high |-> max_high,
     f_low |-> Objective(func, low), f_high |-> Objective(func, high),
     low0 |-> low, high0 |-> high, evals |-> {low, high}]

\* while f_low * f_high > 0
find_bracket_test(f) == Sign(f.f_low) * Sign(f.f_high) > 0

\* the loop body: high *= factor, the raise, f_high = func(high)
find_bracket_body(f) ==
    LET high == f.high * f.factor
    IN  IF high > f.max_high
        THEN [f EXCEPT !.st = "raised", !.high = high]
        ELSE [f EXCEPT !.high = high, !.f_high = Objective(f.func, high),
                       !.evals = @ \cup {high}]

PdeIdle == [st |-> "idle", op |-> "none", typ |-> "none", n |-> 0,
            V |-> [j \in 0 .. GridNodes |-> 0]]

Call(op_, typ_, seed_, res_, rng1_, draws_) ==
    [op |-> op_, typ |-> typ_, seed |-> seed_, res |-> res_,
     rng0 |-> rng, rng1 |-> rng1_, draws |-> draws_]

\* a call returns: it is logged and the global generator is left at rng1
Return(op_, typ_, seed_, res_, rng1_, draws_) ==
    /\ Len(calls) < MaxCalls
    /\ calls' = Append(calls, Call(op_, typ_, seed_, res_, rng1_, draws_))
    /\ rng' = rng1_
    /\ UNCHANGED <<nb, env, fb>>

Init ==
    /\ nb \in Notebooks
    /\ env \in Markets(nb)
    /\ rng \in EntropyStates
    /\ calls = <<>>
    /\ pde = PdeIdle
    /\ fb = FindBracketIdle

OptionTypes == {"call", "put", "straddle"}

BlackScholesPrice ==
    /\ nb = "final_report"
    /\ pde.st # "run"
    /\ \E typ \in OptionTypes :
         Return("black_scholes_price", typ, NoSeed,
                black_scholes_price(env.S0, env.K, env.T, env.r, env.sigma, typ),
                rng, 0)
    /\ UNCHANGED pde

BsmPrice ==
    /\ nb = "pde_vs_mc_vs_bsm"
    /\ pde.st # "run"
    /\ \E typ \in OptionTypes :
         Return("bsm_price", typ, NoSeed,
                bsm_price(env.S0, env.K, env.r, env.sigma, env.T, typ), rng, 0)
    /\ UNCHANGED pde

McEuropeanPrice ==
    /\ nb = "final_report"
    /\ pde.st # "run"
    /\ Regular(env)
    /\ \E typ \in {"call", "put"}, seed \in Seeds \cup {NoSeed} :
         LET out == mc_european_price(env.S0, env.K, env.r, env.sigma, env.T,
                                      NumPaths, NumSteps, typ = "call", seed, rng)
         IN  Return("mc_european_price", typ, seed, out.res, out.rng,
                    NumPaths * NumSteps)
    /\ UNCHANGED pde

McPriceEuropean ==
    /\ nb = "pde_vs_mc_vs_bsm"
    /\ pde.st # "run"
    /\ Regular(env)
    /\ \E typ \in {"call", "put"}, seed \in Seeds :
         LET out == mc_price_european(env.S0, env.K, env.r, env.sigma, env.T,
                                      NumPaths, NumSteps, typ, seed, rng)
         IN  Return("mc_price_european", typ, seed, out.res, out.rng,
                    NumPaths * NumSteps)
    /\ UNCHANGED pde

McBarrierDownOutCall ==
    /\ nb = "exotic_greeks"
    /\ \E seed \in Seeds \cup {NoSeed} :
         LET out == mc_barrier_down_out_call(env.S0, env.K, env.r, env.sigma, env.T,
                                             env.B_d, NumPaths, NumSteps, seed, rng)
         IN  Return("mc_barrier_down_out_call", "Down-Out", seed, out.res, out.rng,
                    NumPaths * NumSteps)
    /\ UNCHANGED pde

\* the bump sizes of the Greeks cell, in cents
Bumps == {PS}

ComputeGreeks ==
    /\ nb = "exotic_greeks"
    /\ \E seed \in Seeds \cup {NoSeed}, bump \in Bumps :
         LET out == compute_greeks(env.S0, bump, env.K, env.r, env.sigma, env.T,
                                   NumPaths, NumSteps, seed, rng)
         IN  Return("compute_greeks", "Down-Out", seed, out.res, out.rng,
                    3 * NumPaths * NumSteps)
    /\ UNCHANGED pde

\* the set-up cell np.random.seed(42), run before the pricing cells
NpRandomSeed ==
    /\ nb = "mc_barrier"
    /\ calls = <<>>
    /\ rng' = SeedState(42)
    /\ UNCHANGED <<nb, env, calls, pde, fb>>

McPrice ==
    /\ nb = "mc_barrier"
    /\ \E fn \in PayoffFns :
         LET out == mc_price(fn, NumPaths, env, rng)
         IN  Return("mc_price", fn, NoSeed, out.res, out.rng, NumPaths * env.M)
    /\ UNCHANGED pde

RrDownOutCallMc ==
    /\ nb = "mc_barrier"
    /\ Return("rr_down_out_call", "Down-Out", NoSeed,
              rr_down_out_call_mc(env.S0, env.K, env.B_d, env.r, env.T, env.sigma),
              rng, 0)
    /\ UNCHANGED pde

DownAndOutCallRr ==
    /\ nb = "pde_vs_mc_barrier"
    /\ pde.st # "run"
    /\ Return("down_and_out_call_rr", "Down-Out", NoSeed,
              down_and_out_call_rr(env.S0, env.K, env.r, env.sigma, env.T, env.B_d),
              rng, 0)
    /\ UNCHANGED pde

McDoCall ==
    /\ nb = "pde_vs_mc_barrier"
    /\ pde.st # "run"
    /\ \E seed \in Seeds :
         LET out == mc_do_call(env.S0, env.K, env.r, env.sigma, env.T, env.B_d,
                               NumSteps, NumPaths, seed, rng)
         IN  Return("mc_do_call", "Down-Out", seed, out.res, out.rng,
                    NumPaths * NumSteps)
    /\ UNCHANGED pde

RrDownOutCallCn ==
    /\ nb = "cn_barrier"
    /\ pde.st # "run"
    /\ Return("rr_down_out_call", "Down-Out", NoSeed,
              rr_down_out_call_cn(env.S0, env.K, env.B_d, env.r, env.T, env.sigma),
              rng, 0)
    /\ UNCHANGED pde

\* the argument record of a grid solve
\* the solver each session defines, and the Smax it is run with: the
\* barrier notebooks pass Smax, the vanilla solvers run on their defaults
PdeOpOf(n) ==
    CASE n = "pde_vs_mc_barrier" -> "pde_do_call_cn"
      [] n = "cn_barrier"        -> "crank_nicolson_barrier"
      [] n = "final_report"      -> "crank_nicolson_banded"
      [] n = "pde_vs_mc_vs_bsm"  -> "crank_nicolson_dense"

SmaxOf(n) ==
    CASE n = "final_report"     -> 300 * PS
      [] n = "pde_vs_mc_vs_bsm" -> 200 * PS
      [] OTHER                  -> env.Smax

PdeSessions == {"pde_vs_mc_barrier", "cn_barrier", "final_report", "pde_vs_mc_vs_bsm"}

PdeTypes(n) == IF PdeOpOf(n) \in VanillaPdeOps THEN {"call", "put"} ELSE {"Down-Out"}

PdeArgsFor(typ) ==
    [S0 |-> env.S0, K |-> env.K, r |-> env.r, sigma |-> env.sigma, T |-> env.T,
     B |-> env.B_d, Smax |-> SmaxOf(nb), N_S |-> env.N_S, N_t |-> env.N_t,
     option_type |-> typ]

\* the arguments of the solve that is under way
PdeArgs == PdeArgsFor(pde.typ)

\* the solver is called, once in a session: the grid and the terminal layer
\* are built
PdeStart ==
    /\ nb \in PdeSessions
    /\ Regular(env)
    /\ pde.st = "idle"
    /\ Len(calls) < MaxCalls
    /\ \E typ \in PdeTypes(nb) :
         pde' = [st |-> "run", op |-> PdeOpOf(nb), typ |-> typ, n |-> 0,
                 V |-> PdeInit(PdeOpOf(nb), PdeArgsFor(typ))]
    /\ UNCHANGED <<nb, env, rng, calls, fb>>

\* one pass of the time loop
PdeTimeStep ==
    /\ pde.st = "run"
    /\ pde.n < env.N_t
    /\ pde' = [pde EXCEPT !.n = @ + 1, !.V = PdeStep(pde.op, PdeArgs, pde.n, pde.V)]
    /\ UNCHANGED <<nb, env, rng, calls, fb>>

\* a return that does not wait for the end of the time loop
PdeReturnEarly ==
    /\ pde.st = "run"
    /\ pde.n >= 1
    /\ Return(pde.op, pde.typ, NoSeed,
              Float(Interp(env.S0, SmaxOf(nb), env.N_S, pde.V)), rng, 0)
    /\ pde' = [pde EXCEPT !.st = "done"]

\* the loop is over: the solver returns the layer interpolated at S0
PdeReturn ==
    /\ pde.st = "run"
    /\ pde.n = env.N_t
    /\ Return(pde.op, pde.typ, NoSeed,
              Float(Interp(env.S0, SmaxOf(nb), env.N_S, pde.V)), rng, 0)
    /\ pde' = [pde EXCEPT !.st = "done"]

Next ==
    \/ BlackScholesPrice
    \/ BsmPrice
    \/ McEuropeanPrice
    \/ McPriceEuropean
    \/ McBarrierDownOutCall
    \/ NpRandomSeed
    \/ McPrice
    \/ RrDownOutCallMc
    \/ DownAndOutCallRr
    \/ McDoCall
    \/ RrDownOutCallCn
    \/ PdeStart
    \/ PdeTimeStep
    \/ PdeReturn

Spec == Init /\ [][Next]_vars

-----------------------------------------------------------------------------
(* The properties                                                          *)

\* the calls that have returned
Logged == {calls[i] : i \in 1 .. Len(calls)}

MonteCarloOps == {"mc_price", "mc_european_price", "mc_barrier_down_out_call",
                  "mc_price_european", "mc_do_call"}

ReinerRubinsteinOps == {"down_and_out_call_rr", "rr_down_out_call"}

BlackScholesOps == {"black_scholes_price", "bsm_price"}

\* the price a call returned, when it returned one
Priced(c) == c.res.kind \in {"float", "pair"}

\* C1: every engine that prices a down-and-out call (Monte Carlo, grid
\* solver, closed form) returns the price 0 when the barrier is at or above
\* the spot.
ImmediateKnockout ==
    \A c \in Logged :
        (c.typ = "Down-Out" /\ env.B_d >= env.S0) => (Priced(c) /\ c.res.v = 0)

\* C2: every Reiner-Rubinstein pricer returns the value 0 without raising
\* when the barrier is at or above the spot, and none raises for a barrier
\* strictly between 0 and the spot.
RRNeverRejects ==
    \A c \in Logged :
        c.op \in ReinerRubinsteinOps =>
            /\ env.B_d >= env.S0 => c.res = Float(0)
            /\ (0 < env.B_d /\ env.B_d < env.S0) => c.res.kind # "raise"

\* C3: a Monte Carlo call for a down-and-out option whose barrier is at or
\* above the spot returns 0 without simulating: it draws no random number
\* and leaves the generator in the state it found it in.
KnockoutDrawsNothing ==
    \A c \in Logged :
        (c.op \in MonteCarloOps /\ c.typ = "Down-Out" /\ env.B_d >= env.S0) =>
            /\ Priced(c) /\ c.res.v = 0
            /\ c.draws = 0
            /\ c.rng1 = c.rng0

\* C4: a knock-in option whose barrier the spot has already breached at
\* time 0 (down-and-in with B >= S0, up-and-in with B <= S0) has the price
\* of the vanilla call on the same paths.
BreachedKnockInIsVanilla ==
    \A c \in Logged :
        (/\ c.op = "mc_price"
         /\ \/ c.typ = "Down-In" /\ env.B_d >= env.S0
            \/ c.typ = "Up-In" /\ env.B_u <= env.S0) =>
            c.res.v = mc_price("Vanilla", NumPaths, env, c.rng0).res.v

\* C5: every Black-Scholes pricer returns 0.0 and does not raise, for a call
\* and for a put, when one of T <= 0, sigma <= 0, S0 <= 0, K <= 0 holds.
DegenerateInputsPriceZero ==
    \A c \in Logged :
        (/\ c.op \in BlackScholesOps
         /\ c.typ \in {"call", "put"}
         /\ ~Regular(env)) => c.res = Float(0)

\* C6: at T = 0 the Black-Scholes price of a call is max(S0 - K, 0) and of a
\* put max(K - S0, 0), for S0 > 0 and K > 0.
ExpiryPriceIsIntrinsic ==
    \A c \in Logged :
        (/\ c.op \in BlackScholesOps
         /\ c.typ \in {"call", "put"}
         /\ env.T = 0 /\ env.S0 > 0 /\ env.K > 0) =>
            c.res = Float(IF c.typ = "call" THEN Max(env.S0 - env.K, 0)
                                            ELSE Max(env.K - env.S0, 0))

\* C7: every Monte Carlo operation accepts a seed, and two calls of the same
\* operation with the same parameters and the same seed return the same
\* result whatever was called before or between them.
SeededCallsRepeat ==
    /\ \A c \in Logged : c.op \in MonteCarloOps => AcceptsSeed(c.op)
    /\ \A c, d \in Logged :
          (/\ c.op \in MonteCarloOps
           /\ c.op = d.op /\ c.typ = d.typ /\ c.seed = d.seed
           /\ (c.seed # NoSeed \/ ~AcceptsSeed(c.op))) => c.res = d.res

\* C8: no Monte Carlo call writes a generator state another call can
\* observe: the global generator is after the call as it was before it.
NoSharedGeneratorState ==
    \A c \in Logged : c.op \in MonteCarloOps => c.rng1 = c.rng0

\* C9: every Monte Carlo pricing call returns a price together with a
\* confidence half-width.
MonteCarloReturnsHalfWidth ==
    \A c \in Logged : c.op \in MonteCarloOps => c.res.kind = "pair"

\* C10: the prices that successive mc_price calls return satisfy in/out
\* parity, down-and-out + down-and-in = vanilla and up-and-out + up-and-in =
\* vanilla, up to the rounding of the three means.
SuccessiveCallsParity ==
    \A v, o, i \in Logged :
        (/\ v.op = "mc_price" /\ o.op = "mc_price" /\ i.op = "mc_price"
         /\ v.typ = "Vanilla"
         /\ \/ o.typ = "Down-Out" /\ i.typ = "Down-In"
            \/ o.typ = "Up-Out" /\ i.typ = "Up-In") =>
            Abs(o.res.v + i.res.v - v.res.v) <= 2

\* the Black-Scholes price of the vanilla call of the session's market
VanillaCallPrice ==
    black_scholes_price(env.S0, env.K, env.T, env.r, env.sigma, "call").v

\* the batch a call of mc_price simulated, and its vanilla estimate
BatchOf(c) ==
    simulate_paths(env.S0, env.r, env.sigma, env.T, env.M, NumPaths, c.rng0)

VanillaOnBatch(c) == mc_price("Vanilla", NumPaths, env, c.rng0).res.v

BarrierBelowSpot == 0 < env.B_d /\ env.B_d < env.S0

DownOutEstimates == {c \in Logged : c.op = "mc_price" /\ c.typ = "Down-Out"}

ClosedFormPrices == {c \in Logged : c.op \in ReinerRubinsteinOps /\ Priced(c)}

\* a path the barrier takes a positive payoff from
KnockedInTheMoney(path) == AnyAtOrBelow(path, env.B_d) /\ Last(path) > env.K

\* C11: with the barrier strictly between 0 and the spot, the down-and-out
\* call price is strictly less than the vanilla call price, both for the
\* Monte Carlo estimate on a path batch and for the Reiner-Rubinstein
\* closed form.
KnockOutStrictlyCheaper ==
    BarrierBelowSpot =>
        /\ \A c \in DownOutEstimates : c.res.v < VanillaOnBatch(c)
        /\ \A c \in ClosedFormPrices : c.res.v < VanillaCallPrice

\* C11 (amended): with the barrier strictly between 0 and the spot, the
\* down-and-out estimate on a batch is never above the vanilla estimate on
\* the same batch and is below it exactly when a path that ends in the money
\* touches the barrier; the closed-form price is never above the
\* Black-Scholes call price and is below it when the barrier is above half
\* the spot.
KnockOutNeverDearer ==
    BarrierBelowSpot =>
        /\ \A c \in DownOutEstimates :
              /\ c.res.v <= VanillaOnBatch(c)
              /\ (c.res.v < VanillaOnBatch(c)) <=>
                    (\E i \in 1 .. NumPaths : KnockedInTheMoney(BatchOf(c)[i]))
        /\ \A c \in ClosedFormPrices :
              /\ c.res.v <= VanillaCallPrice
              /\ (2 * env.B_d > env.S0) => (c.res.v < VanillaCallPrice)

\* C11 witness: an estimate that lost an in-the-money path to a barrier
\* below the spot, and kept a positive payoff from another path
KnockedOutInTheMoney ==
    /\ BarrierBelowSpot
    /\ \E c \in DownOutEstimates :
          /\ \E i \in 1 .. NumPaths : KnockedInTheMoney(BatchOf(c)[i])
          /\ 0 < c.res.v
          /\ c.res.v < VanillaOnBatch(c)

\* ---------------------------------------------------------------------------
\* The closed-form pricers on a wider range of valid markets: spot, strike,
\* maturity and volatility of the sessions that call black_scholes_price and
\* bsm_price with call and put.
ValidMarkets ==
    {Market(s, k, t, v, 9000, 11000) :
        s \in {8000, 10000, 12000}, k \in {9000, 10000, 11000},
        t \in {5000, 10000, 20000}, v \in {1000, 2000, 4000}}

AnalyticInit ==
    /\ nb \in {"final_report", "pde_vs_mc_vs_bsm"}
    /\ env \in ValidMarkets
    /\ rng = 0
    /\ calls = <<>>
    /\ pde = PdeIdle
    /\ fb = FindBracketIdle

AnalyticNext == BlackScholesPrice \/ BsmPrice

AnalyticSpec == AnalyticInit /\ [][AnalyticNext]_vars

\* S0 - K exp(-r T), the value of a forward struck at K
ForwardValue == env.S0 - Mul(env.K, Exp(-Mul(env.r, env.T)))

CallPrices == {c \in Logged : c.op \in BlackScholesOps /\ c.typ = "call" /\ Priced(c)}
PutPrices  == {c \in Logged : c.op \in BlackScholesOps /\ c.typ = "put" /\ Priced(c)}

PathOps == {"mc_price", "mc_barrier_down_out_call", "mc_price_european", "mc_do_call"}

\* the generator state a call started its draws from
StartState(c) == IF c.seed # NoSeed THEN SeedState(c.seed) ELSE c.rng0

\* the array of prices a logged call simulated, one row per path
PathBatch(c) ==
    CASE c.op = "mc_price" ->
           simulate_paths(env.S0, env.r, env.sigma, env.T, env.M, NumPaths, c.rng0)
      [] c.op = "mc_barrier_down_out_call" ->
           [i \in 1 .. NumPaths |->
              S_path_of(env.S0, env.r, env.sigma, env.T, NumSteps, StartState(c), i)]
      [] c.op = "mc_price_european" ->
           mc_price_european_S(env.S0, env.r, env.sigma, env.T, NumPaths, NumSteps,
                               SeedState(c.seed))
      [] c.op = "mc_do_call" ->
           [i \in 1 .. NumPaths |->
              mc_do_call_S(env.S0, env.r, env.sigma, env.T, NumSteps,
                           SeedState(c.seed), i)]

PathCalls == {c \in Logged : c.op \in PathOps}

\* C14: every simulated path batch has num_paths rows of num_steps + 1
\* prices and the first price of every row is the spot S0, so that barrier
\* monitoring includes time 0.
BatchStartsAtSpot ==
    \A c \in PathCalls :
        /\ Len(PathBatch(c)) = NumPaths
        /\ \A i \in 1 .. NumPaths :
              /\ Len(PathBatch(c)[i]) = NumSteps + 1
              /\ PathBatch(c)[i][1] = env.S0

\* ---------------------------------------------------------------------------
\* The knock-out rule, stated on the extreme prices of a monitored path.
RECURSIVE SeqMax(_)
SeqMax(s) == IF Len(s) = 1 THEN s[1] ELSE Max(s[1], SeqMax(Tail(s)))

KnockOutCalls ==
    {c \in Logged : \/ c.op = "mc_price" /\ c.typ \in {"Down-Out", "Up-Out"}
                    \/ c.op \in {"mc_barrier_down_out_call", "mc_do_call"}}

\* touching counts: the minimum at or below a lower barrier, the maximum at
\* or above an upper one
Breached(c, path) ==
    IF c.typ = "Up-Out" THEN SeqMax(path) >= env.B_u ELSE SeqMin(path) <= env.B_d

RulePayoffs(c) ==
    CHOOSE payoffs \in
        {[i \in 1 .. NumPaths |->
             IF Breached(c, paths[i]) THEN 0 ELSE vanilla_call(Last(paths[i]), env.K)] :
           paths \in {PathBatch(c)}} : TRUE

\* the price each pricer makes of its payoffs
RulePrice(c) ==
    IF c.op = "mc_do_call"
    THEN Mul(Mean(RulePayoffs(c)), Exp(-Mul(env.r, env.T)))
    ELSE Mean(Discounted(env.r, env.T, RulePayoffs(c)))

\* C15: the knock-out payoff of a path is the vanilla payoff exactly when no
\* monitored price breaches the barrier, touching counting as a breach (down:
\* minimum <= B, up: maximum >= B), and every Monte Carlo barrier pricer
\* prices by this one rule.
OneKnockOutRule == \A c \in KnockOutCalls : c.res.v = RulePrice(c)

\* C15 witness: a knock-out estimate over a batch with a breached path that
\* ends in the money and a surviving path that pays
BreachedAndSurviving ==
    \E c \in KnockOutCalls :
        \E i, j \in 1 .. NumPaths :
            /\ Breached(c, PathBatch(c)[i])
            /\ Last(PathBatch(c)[i]) > env.K
            /\ ~Breached(c, PathBatch(c)[j])
            /\ c.res.v > 0

\* ---------------------------------------------------------------------------
\* The grid solvers as state machines.

\* the price of grid node j in the solve of this session
NodePrice(j) == GridNode(SmaxOf(nb), env.N_S, j)

\* the payoff at maturity of the option a solve prices; the node that lies
\* exactly on a barrier may hold the call payoff or 0
IsTerminalPayoff(p, j) ==
    LET call == Max(NodePrice(j) - env.K, 0)
        put  == Max(env.K - NodePrice(j), 0)
    IN  CASE p.typ = "call" -> p.V[j] = call
          [] p.typ = "put"  -> p.V[j] = put
          [] OTHER -> IF NodePrice(j) < env.B_d THEN p.V[j] = 0
                      ELSE IF NodePrice(j) > env.B_d THEN p.V[j] = call
                      ELSE p.V[j] \in {0, call}

\* the value at S0 on the straight line between the two nodes around S0
InterpolatesAtSpot(v, V) ==
    \E j \in 0 .. env.N_S - 1 :
        /\ NodePrice(j) <= env.S0
        /\ env.S0 <= NodePrice(j + 1)
        /\ v = V[j] + RDiv((V[j + 1] - V[j]) * (env.S0 - NodePrice(j)),
                          NodePrice(j + 1) - NodePrice(j))

SolveStarts == pde.st # "run" /\ pde'.st = "run"
SolveSteps  == pde.st = "run" /\ pde'.st = "run"
SolveEnds   == pde.st = "run" /\ pde'.st = "done"

SolverTransition ==
    /\ SolveStarts =>
          /\ pde'.n = 0
          /\ \A j \in 0 .. env.N_S : IsTerminalPayoff(pde', j)
    /\ SolveSteps =>
          /\ pde'.n = pde.n + 1
          /\ pde'.n <= env.N_t
          /\ pde'.op = pde.op /\ pde'.typ = pde.typ
          /\ calls' = calls
    /\ SolveEnds =>
          /\ pde.n = env.N_t
          /\ pde'.V = pde.V
          /\ Len(calls') = Len(calls) + 1
          /\ calls'[Len(calls')].op = pde.op
          /\ InterpolatesAtSpot(calls'[Len(calls')].res.v, pde.V)
    /\ DOMAIN pde'.V = 0 .. env.N_S
    /\ env' = env /\ nb' = nb

ImplicitSystem(op, a) ==
    CASE op = "pde_do_call_cn"         -> pde_do_call_cn_M1(a)
      [] op = "crank_nicolson_barrier" -> BandedRows(crank_nicolson_barrier_A(a))
      [] op = "crank_nicolson_banded"  -> BandedRows(crank_nicolson_banded_A(a))
      [] op = "crank_nicolson_dense"   -> crank_nicolson_dense_A(a)

Solving == pde.st = "run" /\ pde.n < env.N_t

StepSize == RDiv(env.T, env.N_t)

Interior == 1 .. env.N_S - 1

NodeAlpha(i) == Alpha(env.sigma, env.r, StepSize, i)
NodeBeta(i)  == Beta(env.sigma, env.r, StepSize, i)
NodeGamma(i) == Gamma(env.sigma, env.r, StepSize, i)

\* C17: in the implicit system passed to the linear solver the row of
\* interior node i has main diagonal 1 - beta_i, sub-diagonal -alpha_i and
\* super-diagonal -gamma_i, all three of node i, in every Crank-Nicolson
\* variant and with the banded storage read as the solver reads it.
ImplicitRowsOfOwnNode ==
    Solving =>
        LET A == ImplicitSystem(pde.op, PdeArgs)
        IN  \A i \in Interior :
               /\ A.diag[i] = DS - NodeBeta(i)
               /\ i > 1 => A.sub[i] = -NodeAlpha(i)
               /\ i < env.N_S - 1 => A.sup[i] = -NodeGamma(i)

\* the layer a solver multiplies by its explicit matrix in pass n
LayerInProduct(op, a, n, V) ==
    IF op = "pde_do_call_cn" THEN pde_do_call_cn_bc(a, n, V) ELSE V

\* the product of the explicit matrix and the old layer
ExplicitRhs(op, a, n, V) ==
    CASE op = "pde_do_call_cn"         -> pde_do_call_cn_rhs(a, pde_do_call_cn_bc(a, n, V))
      [] op = "crank_nicolson_barrier" -> crank_nicolson_barrier_rhs0(a, V)
      [] op = "crank_nicolson_banded"  -> crank_nicolson_banded_rhs(a, V)
      [] op = "crank_nicolson_dense"   -> crank_nicolson_dense_rhs(a, V)

\* the right-hand side handed to the linear solver
SolverRhs(op, a, n, V) ==
    IF op = "crank_nicolson_barrier" THEN crank_nicolson_barrier_rhs(a, n, V)
    ELSE ExplicitRhs(op, a, n, V)

\* alpha_i V[i-1] + (1 + beta_i) V[i] + gamma_i V[i+1]
ExplicitStencil(W, i) ==
    Mul(W[i - 1], NodeAlpha(i)) + Mul(W[i], DS + NodeBeta(i))
    + Mul(W[i + 1], NodeGamma(i))

\* C18: the explicit right-hand side of interior node i is
\* alpha_i V[i-1] + (1 + beta_i) V[i] + gamma_i V[i+1] of the old layer, with
\* the coefficients of node i itself (no index shift).
ExplicitRowsOfOwnNode ==
    Solving =>
        \A i \in Interior :
            ExplicitRhs(pde.op, PdeArgs, pde.n, pde.V)[i]
              = ExplicitStencil(LayerInProduct(pde.op, PdeArgs, pde.n, pde.V), i)

LastInterior == env.N_S - 1

\* the far-boundary value of the layer a pass produces
NewFarValue == PdeStep(pde.op, PdeArgs, pde.n, pde.V)[env.N_S]

\* C19: the far-boundary value V_M enters the equation of the last interior
\* node with the coefficient +gamma_(M-1), for the old layer and for the new
\* one; no variant drops the term or gives it the opposite sign.
FarBoundaryEntersLastRow ==
    Solving =>
        SolverRhs(pde.op, PdeArgs, pde.n, pde.V)[LastInterior]
          = ExplicitStencil(LayerInProduct(pde.op, PdeArgs, pde.n, pde.V), LastInterior)
            + Mul(NewFarValue, NodeGamma(LastInterior))

\* Smax - K exp(-r tau)
FarBoundaryAt(tau) == SmaxOf(nb) - Mul(env.K, Exp(-Mul(env.r, tau)))

\* C20: after the k-th backward step the far-boundary node of a call solve
\* holds Smax - K exp(-r tau) with the time to maturity tau = k dt; it is
\* re-imposed at every step, and the returned layer holds
\* Smax - K exp(-r T).
FarBoundaryFollowsTimeToMaturity ==
    (pde.st \in {"run", "done"} /\ pde.n >= 1 /\ pde.typ # "put") =>
        /\ pde.V[env.N_S] = FarBoundaryAt(pde.n * StepSize)
        /\ pde.st = "done" => pde.V[env.N_S] = FarBoundaryAt(env.T)

\* ---------------------------------------------------------------------------
\* Barrier absorption on the grid.

BarrierSolve == pde.op \in BarrierPdeOps /\ pde.st \in {"run", "done"}

\* jB = floor(B / dS), the largest node whose price is at most B
SnappedNode == BarrierNode(env.B_d, SmaxOf(nb), env.N_S)

\* the nodes a barrier solver sets to zero in each pass of its time loop
AbsorbedNodes(op, a) ==
    IF op = "pde_do_call_cn" THEN pde_do_call_cn_absorbed(a)
    ELSE crank_nicolson_barrier_absorbed(a)

\* C21: in a down-and-out solve every layer, from the terminal one (n = 0)
\* to the returned one (n = N_t), is 0 at the barrier node and at every node
\* below it: the absorption is re-imposed after every solve, the last one
\* included, on all the nodes up to the barrier node.
AbsorbedOnEveryLayer ==
    BarrierSolve => \A j \in 0 .. Min(SnappedNode, env.N_S) : pde.V[j] = 0

\* C22: the barrier is snapped to the node jB = floor(B/dS) and the nodes
\* held at zero are exactly 0..jB, the same set in both barrier solvers for
\* the same B and grid, also when B lies on a grid node.
AbsorbedUpToSnappedNode ==
    BarrierSolve =>
        \A op \in BarrierPdeOps : AbsorbedNodes(op, PdeArgs) = 0 .. SnappedNode

\* C23: in every solve the grid satisfies Smax > K and, for a barrier option,
\* Smax > B, so that the barrier node is an interior node (jB < M): no solve
\* is carried out on a grid that violates this.
GridCoversStrikeAndBarrier ==
    pde.st = "run" =>
        /\ SmaxOf(nb) > env.K
        /\ pde.op \in BarrierPdeOps =>
              (SmaxOf(nb) > env.B_d /\ SnappedNode < env.N_S)

-----------------------------------------------------------------------------
(* The Monte Carlo estimators called with every sample size from one path  *)
(* up to NumPaths                                                           *)

EstimatorNotebooks == {"final_report", "exotic_greeks", "mc_barrier"}

EstimatorInit ==
    /\ nb \in EstimatorNotebooks
    /\ env \in {g \in Markets(nb) : Regular(g)}
    /\ rng \in EntropyStates
    /\ calls = <<>>
    /\ pde = PdeIdle
    /\ fb = FindBracketIdle

SampleSizes == 1 .. NumPaths

McEuropeanPriceOfSize ==
    /\ nb = "final_report"
    /\ \E n_paths \in SampleSizes, seed \in {42, NoSeed} :
         LET out == mc_european_price(env.S0, env.K, env.r, env.sigma, env.T,
                                      n_paths, NumSteps, TRUE, seed, rng)
         IN  Return("mc_european_price", "call", seed, out.res, out.rng,
                    n_paths * NumSteps)
    /\ UNCHANGED pde

McBarrierDownOutCallOfSize ==
    /\ nb = "exotic_greeks"
    /\ \E n_paths \in SampleSizes, seed \in {42, NoSeed} :
         LET out == mc_barrier_down_out_call(env.S0, env.K, env.r, env.sigma, env.T,
                                             env.B_d, n_paths, NumSteps, seed, rng)
         IN  Return("mc_barrier_down_out_call", "Down-Out", seed, out.res, out.rng,
                    n_paths * NumSteps)
    /\ UNCHANGED pde

McPriceOfSize ==
    /\ nb = "mc_barrier"
    /\ \E n_paths \in SampleSizes, fn \in {"Vanilla", "Down-Out"} :
         LET out == mc_price(fn, n_paths, env, rng)
         IN  Return("mc_price", fn, NoSeed, out.res, out.rng, n_paths * env.M)
    /\ UNCHANGED pde

EstimatorNext ==
    \/ McEuropeanPriceOfSize
    \/ McBarrierDownOutCallOfSize
    \/ McPriceOfSize

EstimatorSpec == EstimatorInit /\ [][EstimatorNext]_vars

\* the number of paths a logged estimate was taken over
SampleSize(c) == c.draws \div NumSteps

EstimatorOps == {"mc_european_price", "mc_barrier_down_out_call", "mc_price"}

\* C24: every Monte Carlo estimate comes with a half-width 1.96 * s / sqrt(n),
\* s the sample standard deviation with divisor n - 1, and that half-width is
\* a defined non-negative number for every n >= 1, zero when all paths pay
\* the same (as the paths of a one-path sample do)
HalfWidthDefined ==
    \A c \in Logged :
        c.op \in EstimatorOps =>
            /\ c.res.kind = "pair"
            /\ IsFinite(c.res.hw)
            /\ c.res.hw >= 0
            /\ (SampleSize(c) = 1 => c.res.hw = 0)

-----------------------------------------------------------------------------
(* Knock-in / knock-out parity, path by path                              *)

McPriceCalls == {c \in Logged : c.op = "mc_price"}

\* the call logged last; every logged call is the last one of the state it
\* was logged in
LatestCall == IF calls = <<>> THEN {} ELSE {calls[Len(calls)]}

\* one of the two payoffs is the vanilla payoff and the other is 0
SplitsVanilla(out, in, van) ==
    /\ out + in = van
    /\ \/ out = van /\ in = 0
       \/ in = van /\ out = 0

\* C25: on one batch of paths, for every path, for every barrier, the
\* down-and-out and down-and-in payoffs add up to the vanilla call payoff at
\* expiry, and so do up-and-out and up-and-in; one of the two is the vanilla
\* payoff and the other is 0
PathwiseParity ==
    \A c \in McPriceCalls \cap LatestCall :
        LET paths == PathBatch(c)
        IN  \A i \in 1 .. Len(paths) :
              LET van == vanilla_call(Last(paths[i]), env.K)
              IN  /\ SplitsVanilla(down_and_out(paths, env)[i],
                                   down_and_in(paths, env)[i], van)
                  /\ SplitsVanilla(up_and_out(paths, env)[i],
                                   up_and_in(paths, env)[i], van)

\* a batch with a path that rose to the upper barrier, came back below it
\* and expired in the money
KnockedInAndBack ==
    \E c \in McPriceCalls :
        LET paths == PathBatch(c)
        IN  \E i \in 1 .. Len(paths) :
              /\ up_and_in(paths, env)[i] > 0
              /\ Last(paths[i]) < env.B_u

-----------------------------------------------------------------------------
(* The three Reiner-Rubinstein implementations side by side                *)

BarrierBelowSpotAndStrike ==
    0 < env.B_d /\ env.B_d < env.S0 /\ env.B_d < env.K

ReinerRubinsteinPrices ==
    {down_and_out_call_rr(env.S0, env.K, env.r, env.sigma, env.T, env.B_d),
     rr_down_out_call_mc(env.S0, env.K, env.B_d, env.r, env.T, env.sigma),
     rr_down_out_call_cn(env.S0, env.K, env.B_d, env.r, env.T, env.sigma)}

\* C26: for a barrier 0 < B < min(S0, K) the three closed-form down-and-out
\* call pricers are one formula (the vanilla term with d-terms built from
\* ln(S0/K), less the reflection term with y1 built from ln(B^2/(S0 K))) and
\* return equal prices
ReinerRubinsteinAgree ==
    \A c \in Logged :
        (c.op \in ReinerRubinsteinOps /\ BarrierBelowSpotAndStrike) =>
            \A p \in ReinerRubinsteinPrices :
                p.kind = "float" /\ Abs(p.v - c.res.v) <= 2

-----------------------------------------------------------------------------
(* The root bracketing of the implied-volatility notebook                  *)

BracketInit ==
    /\ nb = "implied_volatility"
    /\ env = Market(11000, 10000, 10000, 2000, 9000, 11000)
    /\ rng = 0
    /\ calls = <<>>
    /\ pde = PdeIdle
    /\ fb = FindBracketIdle

FindBracket ==
    /\ fb.st # "loop"
    /\ \E func \in Targets, low \in Lows, high \in Highs, factor \in Factors,
          max_high \in MaxHighs :
         fb' = find_bracket_enter(func, low, high, factor, max_high)
    /\ UNCHANGED <<nb, env, rng, calls, pde>>

FindBracketLoop ==
    /\ fb.st = "loop"
    /\ find_bracket_test(fb)
    /\ fb' = find_bracket_body(fb)
    /\ UNCHANGED <<nb, env, rng, calls, pde>>

FindBracketReturn ==
    /\ fb.st = "loop"
    /\ ~find_bracket_test(fb)
    /\ fb' = [fb EXCEPT !.st = "returned"]
    /\ UNCHANGED <<nb, env, rng, calls, pde>>

BracketNext == FindBracket \/ FindBracketLoop \/ FindBracketReturn

BracketSpec == BracketInit /\ [][BracketNext]_vars

\* C27: find_bracket terminates; it returns (low, high) with
\* func(low) * func(high) <= 0 and high <= max_high (or high as it was
\* passed), or it raises ValueError once high has been multiplied past
\* max_high; low is never changed and func is never evaluated at a point
\* above max_high
BracketContract ==
    /\ fb.st = "returned" =>
          /\ Sign(Objective(fb.func, fb.low)) * Sign(Objective(fb.func, fb.high)) <= 0
          /\ (fb.high <= fb.max_high \/ fb.high = fb.high0)
    /\ fb.st = "raised" => (fb.high > fb.max_high /\ fb.high # fb.high0)
    /\ fb.st # "idle" => fb.low = fb.low0
    /\ \A s \in fb.evals : s <= fb.max_high

-----------------------------------------------------------------------------
(* The finite-difference Greeks                                            *)

\* the sessions of that notebook whose barrier is the 90 of price_barrier
GreeksInit ==
    /\ nb = "exotic_greeks"
    /\ env \in {g \in Markets(nb) : g.B_d = 90 * PS}
    /\ rng \in EntropyStates
    /\ calls = <<>>
    /\ pde = PdeIdle
    /\ fb = FindBracketIdle

GreeksNext == McBarrierDownOutCall \/ ComputeGreeks

GreeksSpec == GreeksInit /\ [][GreeksNext]_vars

GreeksCalls == {c \in Logged : c.op = "compute_greeks"}

\* the price of one seeded evaluation at the spot s, whatever state the
\* global generator is in
SeededPriceAt(s, seed, x) ==
    price_barrier(s, env.K, env.r, env.sigma, env.T, NumPaths, NumSteps, seed, x).res.v

\* C28: compute_greeks evaluates the price function three times, at S0,
\* S0 + bump and S0 - bump, with the other arguments unchanged; with a seed
\* every evaluation reseeds the generator, so the three prices come from the
\* same draws and delta = (up - down)/(2 bump), gamma = (up - 2 base + down)
\* / bump^2 are functions of the arguments alone
GreeksAreDeterministic ==
    \A c \in GreeksCalls \cap LatestCall :
        /\ c.draws = 3 * NumPaths * NumSteps
        /\ c.seed # NoSeed =>
              /\ \A x \in EntropyStates, bump \in Bumps :
                    \A base \in {SeededPriceAt(env.S0, c.seed, x)},
                       up \in {SeededPriceAt(env.S0 + bump, c.seed, x)},
                       down \in {SeededPriceAt(env.S0 - bump, c.seed, x)} :
                        /\ c.res.v = GreekDelta(up, down, bump)
                        /\ c.res.hw = GreekGamma(up, base, down, bump)
              /\ \A d \in GreeksCalls : d.seed = c.seed => d.res = c.res

\* two seeded evaluations of the Greeks that started from different states
\* of the global generator, with a delta that is not zero
GreeksRepeated ==
    \E c, d \in GreeksCalls :
        /\ c.seed # NoSeed /\ d.seed = c.seed
        /\ c.rng0 # d.rng0
        /\ c.res.v # 0

-----------------------------------------------------------------------------
(* The boundary values of the vanilla solver of the report                 *)

\* K exp(-r tau) for the times to maturity of the layers
DiscountedStrikes ==
    {Mul(env.K, Exp(-Mul(env.r, tau))) :
        tau \in {k * StepSize : k \in 0 .. env.N_t}
                \cup {env.T - k * StepSize : k \in 0 .. env.N_t}}

\* C29: the boundary values crank_nicolson re-imposes after a step depend on
\* the payoff: a call has V_0 = 0 and V_M = Smax - K exp(-r tau); a put has
\* V_0 = K exp(-r tau) and V_M = 0, not the boundaries of the call with the
\* discounted strike left at the far node
PayoffSpecificBoundaries ==
    (pde.op = "crank_nicolson_banded" /\ pde.st \in {"run", "done"} /\ pde.n >= 1) =>
        IF pde.typ = "put"
        THEN pde.V[0] \in DiscountedStrikes /\ pde.V[env.N_S] = 0
        ELSE pde.V[0] = 0 /\ (SmaxOf(nb) - pde.V[env.N_S]) \in DiscountedStrikes

-----------------------------------------------------------------------------
(* Option types other than call and put                                    *)

\* C30: a Black-Scholes pricer raises ValueError for every option_type other
\* than "call" and "put", whatever the numeric inputs, the degenerate ones
\* included; none prices an unknown type as a put
UnknownTypeRaises ==
    \A c \in Logged :
        (c.op \in BlackScholesOps /\ c.typ \notin {"call", "put"}) =>
            c.res = Raise("ValueError")

=============================================================================
